---- MODULE Spec2Model ----
(***************************************************************************)
(* Model of notion_clean_all.py: the name normalizer, the folder matcher,  *)
(* the folder renamer, the link rewriter and the orchestrator.             *)
(*                                                                         *)
(* Strings are sequences of one-character strings, so that splitting,      *)
(* stripping, substring search, URL decoding and encoding are computed     *)
(* character by character as the Python code computes them.                *)
(***************************************************************************)
EXTENDS Integers, Sequences, FiniteSets, TLC

VARIABLES
    pc,            \* position of the modelled call or of main()
    name,          \* strip_hash: its argument
    ret,           \* the value returned by the modelled call
    cands,         \* find_md_for_folder: list(parent.glob("*.md")), as stems
    folder_name,   \* find_md_for_folder: its argument
    fs,            \* the directory tree: path -> Dir or a file's content
    fs0,           \* the directory tree when the modelled call or run began
    src,           \* rename_folder: its first argument
    dst,           \* rename_folder: its second argument
    ord,           \* the order in which iterdir() lists names
    text,          \* replace_links: the document's text
    old_dirnames,  \* replace_links: the variants of the old folder name
    rel_to_imgs,   \* replace_links: the relative path to the new folder
    links,         \* the links the document's text was written from
    folders,       \* main: the candidate folders, sorted
    idx,           \* main: the 1-based index of the folder in process
    count,         \* main: the folders process_one returned True for
    md,            \* process_one: the name of the matched document
    run,           \* the number of the run of main() in progress
    log            \* what the runs did: a record kept for the properties

findVars == <<cands, folder_name>>
fsVars == <<fs, fs0, src, dst, ord>>
linkVars == <<text, old_dirnames, rel_to_imgs, links>>

mainVars == <<folders, idx, count, md, run, log>>

vars == <<pc, name, ret, findVars, fsVars, linkVars, mainVars>>


Unset == <<"unset">>         \* a variable a specification does not use, or no result yet
None == <<"None">>          \* Python's None

\* the variables of the parts a specification does not use
IdleFind == cands = Unset /\ folder_name = Unset
IdleFs == fs = Unset /\ fs0 = Unset /\ src = Unset /\ dst = Unset /\ ord = Unset
IdleLinks == text = Unset /\ old_dirnames = Unset /\ rel_to_imgs = Unset /\ links = Unset
IdleMain ==
    /\ folders = Unset /\ idx = 0 /\ count = 0 /\ md = Unset /\ run = 0 /\ log = Unset

(***************************************************************************)
(* Bounds of the model.                                                    *)
(***************************************************************************)
MaxPieces == 4            \* pieces concatenated into a strip_hash argument
MaxDocs == 2              \* .md files next to a folder in the matcher model

(***************************************************************************)
(* Characters and Python's str primitives.                                 *)
(***************************************************************************)
HexLen == 32

HexDigits == {"0","1","2","3","4","5","6","7","8","9",
              "a","b","c","d","e","f","A","B","C","D","E","F"}

Digits == {"0","1","2","3","4","5","6","7","8","9"}

\* str.isspace for the characters of the model
IsSpace(c) == c \in {" ", "\t", "\n"}

Rep(c, n) == [i \in 1..n |-> c]

\* "0123456789abcdef0123456789abcdef", the identifier of the spec's example
Hash1 == <<"0","1","2","3","4","5","6","7","8","9","a","b","c","d","e","f",
           "0","1","2","3","4","5","6","7","8","9","a","b","c","d","e","f">>
\* a second identifier, "bbbb...b"
Hash2 == Rep("b", HexLen)

AllIn(s, set) == \A i \in 1..Len(s) : s[i] \in set

\* sub in s  (Python's substring test)
Contains(s, sub) ==
    \E i \in 0..(Len(s) - Len(sub)) : SubSeq(s, i + 1, i + Len(sub)) = sub

\* HEX32.fullmatch(s): exactly 32 hex characters
HEX32_fullmatch(s) == Len(s) = HexLen /\ AllIn(s, HexDigits)

\* HEX32.search(s): the pattern ends in $, so only the last 32 characters
\* (or the 32 before one final newline) can match
HEX32_search(s) ==
    \/ Len(s) >= HexLen /\ AllIn(SubSeq(s, Len(s) - HexLen + 1, Len(s)), HexDigits)
    \/ /\ Len(s) >= HexLen + 1
       /\ s[Len(s)] = "\n"
       /\ AllIn(SubSeq(s, Len(s) - HexLen, Len(s) - 1), HexDigits)

\* the largest and the smallest element of a non-empty set of integers
Max(set) == CHOOSE x \in set : \A y \in set : y <= x
Min(set) == CHOOSE x \in set : \A y \in set : x <= y

\* str.split() with no argument: split on runs of whitespace, no empty tokens
split(s) ==
    LET starts == { i \in 1..Len(s) : ~IsSpace(s[i]) /\ (i = 1 \/ IsSpace(s[i - 1])) }
        EndOf(i) == Min({ j \in i..Len(s) : j = Len(s) \/ IsSpace(s[j + 1]) })
        Nth(k) == CHOOSE i \in starts : Cardinality({ j \in starts : j < i }) = k - 1
    IN [k \in 1..Cardinality(starts) |-> SubSeq(s, Nth(k), EndOf(Nth(k)))]

\* sep.join(parts)
RECURSIVE join(_, _)
join(sep, parts) ==
    IF Len(parts) = 0 THEN <<>>
    ELSE IF Len(parts) = 1 THEN parts[1]
    ELSE parts[1] \o sep \o join(sep, Tail(parts))

\* s.rstrip(chars) and s.lstrip(chars)
rstrip(s, chars) ==
    LET keep == { i \in 1..Len(s) : s[i] \notin chars } IN
    IF keep = {} THEN <<>> ELSE SubSeq(s, 1, Max(keep))

lstrip(s, chars) ==
    LET keep == { i \in 1..Len(s) : s[i] \notin chars } IN
    IF keep = {} THEN <<>> ELSE SubSeq(s, Min(keep), Len(s))

\* s.strip()
strip(s) == lstrip(rstrip(s, {" ", "\t", "\n"}), {" ", "\t", "\n"})

\* s.replace(c, "") for a single character c
DropChar(s, c) == SelectSeq(s, LAMBDA x : x # c)

(***************************************************************************)
(* Name normalizer.                                                        *)
(***************************************************************************)
\* a strip_hash that forgets to trim the separators left before the token
strip_hash_norstrip(nm) ==
    LET parts == split(nm) IN
    IF Len(parts) > 0 /\ HEX32_fullmatch(parts[Len(parts)])
    THEN join(<<" ">>, SubSeq(parts, 1, Len(parts) - 1))
    ELSE nm

strip_hash(nm) ==
    LET parts == split(nm) IN
    IF Len(parts) > 0 /\ HEX32_fullmatch(parts[Len(parts)])
    THEN rstrip(join(<<" ">>, SubSeq(parts, 1, Len(parts) - 1)), {" ", "|", "_"})
    ELSE nm

remove_brackets(s) == strip(DropChar(DropChar(s, "["), "]"))

(***************************************************************************)
(* pathlib: PurePath.suffix and PurePath.stem of a file name.              *)
(***************************************************************************)
\* name.rfind(c), 1-based, 0 when absent
RFind(s, c) ==
    IF \E i \in 1..Len(s) : s[i] = c
    THEN CHOOSE i \in 1..Len(s) : s[i] = c /\ \A j \in (i + 1)..Len(s) : s[j] # c
    ELSE 0

suffix(nm) ==
    LET i == RFind(nm, ".") IN
    IF i > 1 /\ i < Len(nm) THEN SubSeq(nm, i, Len(nm)) ELSE <<>>

stem(nm) == SubSeq(nm, 1, Len(nm) - Len(suffix(nm)))

DotMd == <<".", "m", "d">>

(***************************************************************************)
(* Folder matcher.                                                         *)
(***************************************************************************)
\* the first index of a set of indices, 0 when there is none
FirstIdx(set) == IF set = {} THEN 0 ELSE Min(set)

norm(x) == remove_brackets(strip_hash(x))

\* a matcher whose last resort takes the first document however many there are
find_md_for_folder_anydefault(cs, fname) ==
    IF cs = <<>> THEN None
    ELSE LET target == norm(fname)
             i1 == FirstIdx({ i \in 1..Len(cs) : norm(stem(cs[i])) = target })
             i2 == FirstIdx({ i \in 1..Len(cs) :
                                Contains(stem(cs[i]), fname) \/ HEX32_search(stem(cs[i])) })
         IN IF i1 # 0 THEN cs[i1]
            ELSE IF i2 # 0 THEN cs[i2]
            ELSE cs[1]

\* cs: list(parent.glob("*.md")) as file names, in the order glob yields them
find_md_for_folder(cs, fname) ==
    IF cs = <<>> THEN None
    ELSE LET target == norm(fname)
             i1 == FirstIdx({ i \in 1..Len(cs) : norm(stem(cs[i])) = target })
             i2 == FirstIdx({ i \in 1..Len(cs) :
                                Contains(stem(cs[i]), fname) \/ HEX32_search(stem(cs[i])) })
         IN IF i1 # 0 THEN cs[i1]
            ELSE IF i2 # 0 THEN cs[i2]
            ELSE IF Len(cs) = 1 THEN cs[1]
            ELSE None

(***************************************************************************)
(* Specification SpecFind: find_md_for_folder over small directories.      *)
(***************************************************************************)
FindFolders ==
    { <<"A", " ">> \o Hash1,
      <<"[", "A", "]", " ">> \o Hash1,
      <<"C", " ">> \o Hash1 }

FindStems ==
    { <<"A">>,
      <<"[", "A", "]">>,
      <<"A", " ">> \o Hash1,
      <<"z", "A", " ">> \o Hash1 \o <<"z">>,
      <<"B">>,
      <<"B", "_">> \o Hash2,
      Hash2 \o <<" ", "B">> }

FindDocs == { s \o DotMd : s \in FindStems }

\* the sequences without repetition of at most n elements of set
RECURSIVE Arrangements(_, _)
Arrangements(set, n) ==
    IF n = 0 THEN { <<>> }
    ELSE LET shorter == Arrangements(set, n - 1) IN
         shorter \cup { Append(s, x) : s \in shorter,
                                        x \in set }

Distinct(seq) == \A i, j \in 1..Len(seq) : i # j => seq[i] # seq[j]

InitFind ==
    /\ pc = "call"
    /\ cands \in { s \in Arrangements(FindDocs, MaxDocs) : Distinct(s) }
    /\ folder_name \in FindFolders
    /\ ret = Unset
    /\ name = Unset
    /\ IdleFs /\ IdleLinks /\ IdleMain

CallFindMd ==
    /\ pc = "call"
    /\ ret' = find_md_for_folder(cands, folder_name)
    /\ pc' = "done"
    /\ UNCHANGED <<name, findVars, fsVars, linkVars, mainVars>>

NextFind == CallFindMd

SpecFind == InitFind /\ [][NextFind]_vars

\* the claim's three tests of a document p against the folder name
ExactMatch(p) ==
    remove_brackets(strip_hash(stem(p))) = remove_brackets(strip_hash(folder_name))

\* a run of 32 hex characters anywhere in s
ContainsHexRun(s) ==
    \E i \in 0..(Len(s) - HexLen) : AllIn(SubSeq(s, i + 1, i + HexLen), HexDigits)

\* s ends with 32 hex characters (one final newline apart)
EndsInHexRun(s) ==
    LET t == IF s # <<>> /\ s[Len(s)] = "\n" THEN SubSeq(s, 1, Len(s) - 1) ELSE s IN
    \/ Len(s) >= HexLen /\ AllIn(SubSeq(s, Len(s) - HexLen + 1, Len(s)), HexDigits)
    \/ Len(t) >= HexLen /\ AllIn(SubSeq(t, Len(t) - HexLen + 1, Len(t)), HexDigits)

LooseAsStated(p) == Contains(stem(p), folder_name) \/ ContainsHexRun(stem(p))

LooseAmended(p) == Contains(stem(p), folder_name) \/ EndsInHexRun(stem(p))

ExactIdx == { i \in 1..Len(cands) : ExactMatch(cands[i]) }
LooseIdxAsStated == { i \in 1..Len(cands) : LooseAsStated(cands[i]) }
LooseIdxAmended == { i \in 1..Len(cands) : LooseAmended(cands[i]) }

\* r is the document at the least index of a non-empty set of indices
IsFirst(r, ix) == \E i \in ix : r = cands[i] /\ \A j \in ix : i <= j

PriorityOrder(loose) ==
    pc = "done" =>
        /\ ExactIdx # {} => IsFirst(ret, ExactIdx)
        /\ (ExactIdx = {} /\ loose # {}) => IsFirst(ret, loose)
        /\ (ExactIdx = {} /\ loose = {} /\ Len(cands) = 1) => ret = cands[1]
        /\ (ExactIdx = {} /\ loose = {} /\ Len(cands) # 1) => ret = None

\* C2 (as stated): the result is the first exact normalized match, else the
\* first document whose raw stem contains the raw folder name or contains a
\* 32-hex token, else the only document, else none.
C2_AsStated == PriorityOrder(LooseIdxAsStated)

\* C2 (amended): the result is the first exact normalized match, else the
\* first document whose raw stem contains the raw folder name or ends with 32
\* hex characters, else the only document, else none; with two or more
\* documents and no match the result is none.
C2_PriorityOrder == PriorityOrder(LooseIdxAmended)

\* two documents, neither matching in any way: the default must not apply
C2_Witness ==
    /\ pc = "done"
    /\ Len(cands) = 2
    /\ ExactIdx = {}
    /\ LooseIdxAmended = {}
    /\ ret = None

(***************************************************************************)
(* The directory tree.  A path is a sequence of names below the working    *)
(* directory; fs maps every existing path to Dir or to a file's content.   *)
(***************************************************************************)
Dir == <<"<dir>">>

Returned == <<"returned">>      \* the call returned
Raised == <<"raised">>          \* the call raised an exception (OSError)

IsDir(f, p) == p \in DOMAIN f /\ f[p] = Dir
IsFile(f, p) == p \in DOMAIN f /\ f[p] # Dir

IsPrefix(p, q) == Len(p) <= Len(q) /\ SubSeq(q, 1, Len(p)) = p

\* the paths at or below p
Under(f, p) == { q \in DOMAIN f : IsPrefix(p, q) }

\* the names listed in directory p
ChildNames(f, p) == { q[Len(q)] : q \in { r \in DOMAIN f : Len(r) = Len(p) + 1 /\ IsPrefix(p, r) } }

\* f restricted to the paths outside set, extended by the function g
Replace(f, gone, g) ==
    [q \in (DOMAIN f \ gone) \cup DOMAIN g |-> IF q \in DOMAIN g THEN g[q] ELSE f[q]]

\* os.rename / shutil.move of the file or tree at p to the path t
MoveTree(f, p, t) ==
    LET moved == Under(f, p)
        Rebase(q) == t \o SubSeq(q, Len(p) + 1, Len(q))
        g == [q \in { Rebase(r) : r \in moved } |->
                 f[CHOOSE r \in moved : Rebase(r) = q]]
    IN Replace(f, moved, g)

\* write_text / mkdir: the path p now holds v
Put(f, p, v) == Replace(f, {}, [q \in {p} |-> v])

\* the elements of set in the order of the sequence o
RECURSIVE InOrder(_, _)
InOrder(set, o) ==
    IF Len(o) = 0 THEN <<>>
    ELSE IF Head(o) \in set THEN <<Head(o)>> \o InOrder(set, Tail(o))
    ELSE InOrder(set, Tail(o))

\* list(p.iterdir()), as names
iterdir(f, p, o) == InOrder(ChildNames(f, p), o)

(***************************************************************************)
(* Folder renamer.                                                         *)
(***************************************************************************)
RECURSIVE rename_folder(_, _, _, _), MergeEntries(_, _, _, _, _)

\* f: the tree; s, d: src and dst; o: the order of iterdir().  The result is
\* the tree left behind and whether the call returned or raised.
rename_folder(f, s, d, o) ==
    IF s = d THEN [fs |-> f, st |-> Returned]
    ELSE IF d \in DOMAIN f
    THEN IF ~IsDir(f, s) THEN [fs |-> f, st |-> Raised]
         ELSE LET r == MergeEntries(f, s, d, iterdir(f, s, o), o) IN
              IF r.st = Raised THEN r
              ELSE IF ChildNames(r.fs, s) # {} THEN [fs |-> r.fs, st |-> Raised]
              ELSE [fs |-> Replace(r.fs, {s}, <<>>), st |-> Returned]
    ELSE [fs |-> MoveTree(f, s, d), st |-> Returned]

\* the loop of lines 27-34 over the listed names
MergeEntries(f, s, d, entries, o) ==
    IF Len(entries) = 0 THEN [fs |-> f, st |-> Returned]
    ELSE LET p == Append(s, Head(entries))
             t == Append(d, Head(entries))
             step ==
                 IF IsDir(f, p)
                 THEN IF IsFile(f, t) \/ ~IsDir(f, d)
                      THEN [fs |-> f, st |-> Raised]
                      ELSE rename_folder(Put(f, t, Dir), p, t, o)
                 ELSE IF t \notin DOMAIN f
                      THEN IF IsDir(f, d)
                           THEN [fs |-> MoveTree(f, p, t), st |-> Returned]
                           ELSE [fs |-> f, st |-> Raised]
                      ELSE [fs |-> f, st |-> Returned]
         IN IF step.st = Raised THEN step
            ELSE MergeEntries(step.fs, s, d, Tail(entries), o)

\* line 127 as a copy: the folder is merged or moved and its source stays
RenameCall_copy(f, s, d, o) ==
    LET r == rename_folder(f, s, d, o) IN
    [fs |-> Replace(r.fs, {}, [q \in Under(f, s) |-> f[q]]), st |-> r.st]

\* the call of line 127
RenameCall(f, s, d, o) == rename_folder(f, s, d, o)

(***************************************************************************)
(* Specification SpecRename: rename_folder(A, B) over small trees.         *)
(***************************************************************************)
NameA == <<"A">>
NameB == <<"B">>
NameX == <<"x">>
NameY == <<"y">>
EntryNames == { NameX, NameY }

\* what a tree holds under one top-level name: nothing, a file, or a
\* directory with some of the entry names as files
Shapes == { "none", "file", "d", "dx", "dy", "dxy" }

ShapeKids(sh) ==
    CASE sh = "dx" -> { NameX }
      [] sh = "dy" -> { NameY }
      [] sh = "dxy" -> { NameX, NameY }
      [] OTHER -> {}

\* the paths of the tree rooted at root, shaped by t, every file holding c
TreePaths(root, t) ==
    { <<root>> }
    \cup { <<root, n>> : n \in { m \in EntryNames : t[m] # "none" } }
    \cup UNION { { <<root, n, k>> : k \in ShapeKids(t[n]) } : n \in EntryNames }

TreeFs(root, t, c) ==
    [q \in TreePaths(root, t) |->
        IF Len(q) = 1 THEN Dir
        ELSE IF Len(q) = 2 THEN (IF t[q[2]] = "file" THEN c ELSE Dir)
        ELSE c]

ContentA == <<"a">>
ContentB == <<"b">>

Orders == { <<NameX, NameY>>, <<NameY, NameX>> }

InitRename ==
    /\ pc = "call"
    /\ src = <<NameA>>
    /\ dst = <<NameB>>
    /\ ord \in Orders
    /\ \E ta \in [EntryNames -> Shapes], tb \in [EntryNames -> Shapes], hasB \in BOOLEAN :
          fs = Replace(TreeFs(NameA, ta, ContentA), {},
                       IF hasB THEN TreeFs(NameB, tb, ContentB) ELSE <<>>)
    /\ fs0 = fs
    /\ ret = Unset
    /\ name = Unset /\ IdleFind /\ IdleLinks /\ IdleMain

CallRenameFolder ==
    /\ pc = "call"
    /\ LET r == rename_folder(fs, src, dst, ord) IN
          /\ fs' = r.fs
          /\ ret' = r.st
    /\ pc' = "done"
    /\ UNCHANGED <<name, findVars, fs0, src, dst, ord, linkVars, mainVars>>

NextRename == CallRenameFolder

SpecRename == InitRename /\ [][NextRename]_vars

\* the relative paths of the files of the tree at root in f
RelFiles(f, root) ==
    { SubSeq(q, Len(root) + 1, Len(q)) : q \in { r \in Under(f, root) : IsFile(f, r) } }

\* the files of B are kept as they were
KeepsDestination ==
    \A r \in RelFiles(fs0, dst) : IsFile(fs, dst \o r) /\ fs[dst \o r] = fs0[dst \o r]

\* the files of A that collide with no file of B are now under B
MovesSource ==
    \A r \in RelFiles(fs0, src) \ RelFiles(fs0, dst) :
        IsFile(fs, dst \o r) /\ fs[dst \o r] = fs0[src \o r]

\* C1: merging A into an existing B keeps every file of B unchanged, and
\* after the call A no longer exists and every file of A that collides with no
\* file of B is under B at the same relative path, also when files collide.
C1_Merge ==
    (pc = "done" /\ dst \in DOMAIN fs0) =>
        /\ KeepsDestination
        /\ src \notin DOMAIN fs
        /\ MovesSource

\* the same, for trees in which no path of A exists in B as a file and no
\* file of A exists in B at all
NoCollision ==
    \A r \in { SubSeq(q, 2, Len(q)) : q \in Under(fs0, src) } :
        Len(r) > 0 =>
            /\ ~IsFile(fs0, dst \o r)
            /\ IsFile(fs0, src \o r) => (dst \o r) \notin DOMAIN fs0

MergeWithoutCollision ==
    (pc = "done" /\ dst \in DOMAIN fs0 /\ NoCollision) =>
        /\ ret = Returned
        /\ KeepsDestination
        /\ src \notin DOMAIN fs
        /\ MovesSource

(***************************************************************************)
(* urllib.parse.unquote and quote.                                         *)
(***************************************************************************)
\* the printable ASCII characters, code 32 to code 126 (the grave accent, which
\* a TLA+ string cannot hold, is written U+0060)
Ascii ==
    <<" ","!","\"","#","$","%","&","'","(",")","*","+",",","-",".","/",
       "0","1","2","3","4","5","6","7","8","9",":",";","<","=",">","?",
       "@","A","B","C","D","E","F","G","H","I","J","K","L","M","N","O",
       "P","Q","R","S","T","U","V","W","X","Y","Z","[","\\","]","^","_",
       "U+0060","a","b","c","d","e","f","g","h","i","j","k","l","m","n","o",
       "p","q","r","s","t","u","v","w","x","y","z","{","|","}","~">>

Kang == "U+AC15"             \* the lecture marker of line 6, UTF-8 EA B0 95
Replacement == "U+FFFD"       \* the replacement character, UTF-8 EF BF BD
Control == "U+0000"           \* stands for the control characters but tab and newline

HexUpper == <<"0","1","2","3","4","5","6","7","8","9","A","B","C","D","E","F">>
HexLower == <<"0","1","2","3","4","5","6","7","8","9","a","b","c","d","e","f">>

HexVal(c) == (CHOOSE i \in 1..16 : HexUpper[i] = c \/ HexLower[i] = c) - 1

\* ord(c) for the characters of one byte
Code(c) ==
    IF c = "\t" THEN 9
    ELSE IF c = "\n" THEN 10
    ELSE IF \E i \in 1..95 : Ascii[i] = c THEN (CHOOSE i \in 1..95 : Ascii[i] = c) + 31
    ELSE 0

\* chr(b) for b < 128
CharOf(b) ==
    IF b = 9 THEN "\t"
    ELSE IF b = 10 THEN "\n"
    ELSE IF b >= 32 /\ b <= 126 THEN Ascii[b - 31]
    ELSE Control

\* the positions of s where a %XX escape starts
EscapeStarts(s) ==
    { i \in 1..(Len(s) - 2) : s[i] = "%" /\ s[i + 1] \in HexDigits /\ s[i + 2] \in HexDigits }

ByteAt(s, i) == 16 * HexVal(s[i + 1]) + HexVal(s[i + 2])

\* three escapes in a row from position i carrying the bytes b1 b2 b3
ThreeBytes(s, e, i, b1, b2, b3) ==
    /\ i \in e /\ (i + 3) \in e /\ (i + 6) \in e
    /\ ByteAt(s, i) = b1 /\ ByteAt(s, i + 3) = b2 /\ ByteAt(s, i + 6) = b3

\* a three-byte UTF-8 sequence the model decodes starts at i
Utf8Start(s, e, i) == ThreeBytes(s, e, i, 234, 176, 149) \/ ThreeBytes(s, e, i, 239, 191, 189)

\* what position i of s contributes to unquote(s)
UnquoteAt(s, e, i) ==
    IF i \in e
    THEN IF ByteAt(s, i) < 128 THEN <<CharOf(ByteAt(s, i))>>
         ELSE IF ThreeBytes(s, e, i, 234, 176, 149) THEN <<Kang>>
         ELSE IF Utf8Start(s, e, i - 3) \/ Utf8Start(s, e, i - 6) THEN <<>>
         ELSE <<Replacement>>
    ELSE IF (i - 1) \in e \/ (i - 2) \in e THEN <<>>
    ELSE <<s[i]>>

RECURSIVE UnquoteRange(_, _, _, _)
UnquoteRange(s, e, i, j) ==
    IF i > j THEN <<>>
    ELSE IF i = j THEN UnquoteAt(s, e, i)
    ELSE LET mid == (i + j) \div 2 IN
         UnquoteRange(s, e, i, mid) \o UnquoteRange(s, e, mid + 1, j)

unquote(s) == UnquoteRange(s, EscapeStarts(s), 1, Len(s))

Letters ==
    {"a","b","c","d","e","f","g","h","i","j","k","l","m","n","o","p","q","r","s","t",
     "u","v","w","x","y","z","A","B","C","D","E","F","G","H","I","J","K","L","M","N",
     "O","P","Q","R","S","T","U","V","W","X","Y","Z"}

\* quote never escapes these
AlwaysSafe == Letters \cup Digits \cup {"_", ".", "-", "~"}

\* safe="/:._-()" of line 80
SafeArg == {"/", ":", ".", "_", "-", "(", ")"}

QuoteChar(c, safe) ==
    IF c \in AlwaysSafe \cup safe THEN <<c>>
    ELSE IF c = Kang THEN <<"%","E","A","%","B","0","%","9","5">>
    ELSE IF c = Replacement THEN <<"%","E","F","%","B","F","%","B","D">>
    ELSE <<"%", HexUpper[(Code(c) \div 16) + 1], HexUpper[(Code(c) % 16) + 1]>>

RECURSIVE QuoteRange(_, _, _, _)
QuoteRange(s, safe, i, j) ==
    IF i > j THEN <<>>
    ELSE IF i = j THEN QuoteChar(s[i], safe)
    ELSE LET mid == (i + j) \div 2 IN
         QuoteRange(s, safe, i, mid) \o QuoteRange(s, safe, mid + 1, j)

quote(s, safe) == QuoteRange(s, safe, 1, Len(s))

(***************************************************************************)
(* pathlib: the parts of a POSIX path.                                     *)
(***************************************************************************)
\* the maximal runs of characters of s outside seps, in order
SplitOn(s, seps) ==
    LET starts == { i \in 1..Len(s) : s[i] \notin seps /\ (i = 1 \/ s[i - 1] \in seps) }
        EndOf(i) == Min({ j \in i..Len(s) : j = Len(s) \/ s[j + 1] \in seps })
        Nth(k) == CHOOSE i \in starts : Cardinality({ j \in starts : j < i }) = k - 1
    IN [k \in 1..Cardinality(starts) |-> SubSeq(s, Nth(k), EndOf(Nth(k)))]

\* PurePosixPath(s).parts: the root if any, then the segments but "" and "."
PathParts(s) ==
    LET segs == SelectSeq(SplitOn(s, {"/"}), LAMBDA g : g # <<".">>)
        root == IF Len(s) >= 1 /\ s[1] = "/"
                THEN IF Len(s) >= 2 /\ s[2] = "/" /\ ~(Len(s) >= 3 /\ s[3] = "/")
                     THEN << <<"/", "/">> >>
                     ELSE << <<"/">> >>
                ELSE <<>>
    IN root \o segs

(***************************************************************************)
(* Link rewriter.                                                          *)
(***************************************************************************)
Slash == <<"/">>

\* a rewrite_path that joins the decoded parts without encoding the result
rewrite_path_noquote(orig_path, olds, rel) ==
    LET dec == unquote(orig_path)
        parts == PathParts(dec)
    IN IF ~\E od \in olds : Contains(orig_path, od) \/ Contains(dec, od) THEN orig_path
       ELSE IF Len(parts) = 0 THEN orig_path
       ELSE join(Slash, <<rel>> \o Tail(parts))

\* olds: old_dirnames; rel: rel_to_imgs
rewrite_path(orig_path, olds, rel) ==
    LET dec == unquote(orig_path)
        parts == PathParts(dec)
    IN IF ~\E od \in olds : Contains(orig_path, od) \/ Contains(dec, od) THEN orig_path
       ELSE IF Len(parts) = 0 THEN orig_path
       ELSE quote(join(Slash, <<rel>> \o Tail(parts)), SafeArg)

\* the first position >= from of s holding c, 0 when there is none
FindFrom(s, c, from) ==
    LET hits == { k \in from..Len(s) : s[k] = c } IN
    IF hits = {} THEN 0 ELSE Min(hits)

\* \[[^\]]*\]\(([^)]+)\) matched with its "[" at position b: the position of
\* the closing ")" , 0 when it does not match
LinkEnd(t, b) ==
    IF ~(b <= Len(t) /\ t[b] = "[") THEN 0
    ELSE LET j == FindFrom(t, "]", b + 1) IN
         IF j = 0 \/ j + 1 > Len(t) \/ t[j + 1] # "(" THEN 0
         ELSE LET k == FindFrom(t, ")", j + 2) IN
              IF k = 0 \/ k = j + 2 THEN 0 ELSE k

\* the position of the "[" of a match of the pattern starting at i, 0 when the
\* pattern does not match at i.  image: !\[...\](...) ; else (?<!\!)\[...\](...)
MatchOpen(t, i, image) ==
    IF image
    THEN IF t[i] = "!" /\ LinkEnd(t, i + 1) # 0 THEN i + 1 ELSE 0
    ELSE IF (i = 1 \/ t[i - 1] # "!") /\ LinkEnd(t, i) # 0 THEN i ELSE 0

\* the start of the leftmost match at or after pos, 0 when there is none
NextMatch(t, pos, image) ==
    LET hits == { i \in pos..Len(t) : MatchOpen(t, i, image) # 0 } IN
    IF hits = {} THEN 0 ELSE Min(hits)

\* group(1) of the match whose "[" is at b
PathOf(t, b) == SubSeq(t, FindFrom(t, "]", b + 1) + 2, LinkEnd(t, b) - 1)

\* s.replace(old, new): every non-overlapping occurrence, left to right
RECURSIVE str_replace(_, _, _)
str_replace(s, old, new) ==
    LET hits == { i \in 1..(Len(s) - Len(old) + 1) : SubSeq(s, i, i + Len(old) - 1) = old } IN
    IF hits = {} \/ Len(old) = 0 THEN s
    ELSE LET i == Min(hits) IN
         SubSeq(s, 1, i - 1) \o new
             \o str_replace(SubSeq(s, i + Len(old), Len(s)), old, new)

\* repl(m) for the match from position i with its "[" at b
\* (lines 83-85: the path is replaced wherever it occurs in the match)
repl(t, i, b, olds, rel) ==
    LET path == PathOf(t, b) IN
    str_replace(SubSeq(t, i, LinkEnd(t, b)), path, rewrite_path(path, olds, rel))

\* pat.sub(repl, text) from position pos on
RECURSIVE SubFrom(_, _, _, _, _)
SubFrom(t, pos, image, olds, rel) ==
    LET i == NextMatch(t, pos, image) IN
    IF i = 0 THEN SubSeq(t, pos, Len(t))
    ELSE LET b == MatchOpen(t, i, image) IN
         SubSeq(t, pos, i - 1) \o repl(t, i, b, olds, rel)
             \o SubFrom(t, LinkEnd(t, b) + 1, image, olds, rel)

\* lines 87-92: the image pattern, then the generic pattern
RewriteText(t, olds, rel) ==
    SubFrom(SubFrom(t, 1, TRUE, olds, rel), 1, FALSE, olds, rel)

\* the paths of the image links of t, in order (re.finditer of line 101)
RECURSIVE ImagePathsFrom(_, _)
ImagePathsFrom(t, pos) ==
    LET i == NextMatch(t, pos, TRUE) IN
    IF i = 0 THEN <<>>
    ELSE <<PathOf(t, i + 1)>> \o ImagePathsFrom(t, LinkEnd(t, i + 1) + 1)

ImagePaths(t) == ImagePathsFrom(t, 1)

\* lines 130-133: the variants of the old folder name
OldVariants(old_dir) ==
    LET base_dir == strip_hash(old_dir)
        pretty_title == remove_brackets(base_dir)
    IN { old_dir, base_dir, pretty_title,
         unquote(old_dir), unquote(base_dir), unquote(pretty_title) }

(***************************************************************************)
(* Specification SpecLinks: the rewriting of a document's text (lines      *)
(* 64-92) for the old folder "A 0123...ef" and the new folder "lecture 01".*)
(***************************************************************************)
LinkOldDir == <<"A", " ">> \o Hash1
Lecture01 == <<"l","e","c","t","u","r","e"," ","0","1">>
Pct20 == <<"%", "2", "0">>

LinkFirsts ==
    { <<"A">> \o Pct20 \o Hash1,
      LinkOldDir,
      <<"A">>,
      <<"B">>,
      <<"B">> \o Pct20 \o Hash2 }

LinkRests ==
    { <<>>,
      <<"/","i",".","p","n","g">>,
      <<"/","i"," ","j",".","p","n","g">>,
      <<"/","i","%","2","0","j",".","p","n","g">>,
      <<"/","s","/","i",".","p","n","g">>,
      <<"/",".","/","i",".","p","n","g">>,
      <<"/","i","%","2","F","j",".","p","n","g">>,
      <<"/","%","e","a","%","b","0","%","9","5",".","p","n","g">> }

\* a path whose text holds "](": with the label "A 0123...ef/i" the path
\* also occurs in the match from the label on
BracketPath == LinkOldDir \o <<"/","i","]","(","A">>
BracketLabel == LinkOldDir \o <<"/","i">>

LinkPaths == { f \o r : f \in LinkFirsts, r \in LinkRests } \cup { BracketPath }

\* the label of a link: "x", empty, the text of its own path, or BracketLabel
LabelKinds == { "x", "empty", "path", "bracket" }

LabelOf(l) ==
    CASE l.label = "x" -> <<"x">>
      [] l.label = "empty" -> <<>>
      [] l.label = "path" -> l.path
      [] l.label = "bracket" -> BracketLabel

FirstLinks ==
    { l \in [img : BOOLEAN, label : LabelKinds, path : LinkPaths] :
        /\ l.label = "bracket" <=> l.path = BracketPath }

SecondLinks ==
    { [img |-> TRUE, label |-> "x",
       path |-> <<"A">> \o Pct20 \o Hash1 \o <<"/","k",".","p","n","g">>],
      [img |-> FALSE, label |-> "x", path |-> <<"B","/","k",".","p","n","g">>] }

\* "![label](path)" or "[label](path)" for the link l with the path p
RenderLink(l, p) ==
    (IF l.img THEN <<"!">> ELSE <<>>) \o <<"[">> \o LabelOf(l) \o <<"]", "(">> \o p \o <<")">>

RECURSIVE RenderFrom(_, _, _, _)
\* the document: "t ", then the links, each followed by a newline, then "u".
\* rewritten: the paths are those rewrite_path gives
RenderFrom(ls, olds, rel, rewritten) ==
    IF Len(ls) = 0 THEN <<"u">>
    ELSE RenderLink(Head(ls), IF rewritten THEN rewrite_path(Head(ls).path, olds, rel)
                              ELSE Head(ls).path)
             \o <<"\n">> \o RenderFrom(Tail(ls), olds, rel, rewritten)

Render(ls) == <<"t", " ">> \o RenderFrom(ls, {}, <<>>, FALSE)

InitLinks ==
    /\ pc = "call"
    /\ links \in { <<l>> : l \in FirstLinks }
                 \cup { <<l, m>> : l \in FirstLinks, m \in SecondLinks }
    /\ text = Render(links)
    /\ old_dirnames = OldVariants(LinkOldDir)
    /\ rel_to_imgs = Lecture01
    /\ ret = Unset
    /\ name = Unset /\ IdleFind /\ IdleFs /\ IdleMain

CallRewriteText ==
    /\ pc = "call"
    /\ ret' = RewriteText(text, old_dirnames, rel_to_imgs)
    /\ pc' = "done"
    /\ UNCHANGED <<name, findVars, fsVars, linkVars, mainVars>>

NextLinks == CallRewriteText

SpecLinks == InitLinks /\ [][NextLinks]_vars

\* the segments of a decoded path after its first one
DecodedRest(p) == Tail(PathParts(unquote(p)))

\* p up to its first "/", and p from its first "/" on
RawFirst(p) == IF FindFrom(p, "/", 1) = 0 THEN p ELSE SubSeq(p, 1, FindFrom(p, "/", 1) - 1)
RawRest(p) == IF FindFrom(p, "/", 1) = 0 THEN <<>> ELSE SubSeq(p, FindFrom(p, "/", 1), Len(p))

\* every image link of the document has the old folder as its first segment
AllImagesInOldDir ==
    /\ Len(ImagePaths(text)) > 0
    /\ \A k \in 1..Len(ImagePaths(text)) :
          LET parts == PathParts(unquote(ImagePaths(text)[k])) IN
          Len(parts) > 0 /\ parts[1] = LinkOldDir

NoBracketInPaths ==
    \A k \in 1..Len(ImagePaths(text)) : ~Contains(ImagePaths(text)[k], <<"]">>)

\* C3 (as stated): in a document whose image links all have the old folder
\* name as first segment, after rewriting every image link has the relative
\* path to the new folder as first segment and its other segments are
\* byte-identical to the input, percent-encoded or not.
C3_AsStated ==
    (pc = "done" /\ AllImagesInOldDir /\ NoBracketInPaths) =>
        /\ Len(ImagePaths(ret)) = Len(ImagePaths(text))
        /\ \A k \in 1..Len(ImagePaths(text)) :
              /\ unquote(RawFirst(ImagePaths(ret)[k])) = rel_to_imgs
              /\ RawRest(ImagePaths(ret)[k]) = RawRest(ImagePaths(text)[k])

\* the percent-encoded form of the decoded segments after the first
CanonRest(p) ==
    IF Len(DecodedRest(p)) = 0 THEN <<>>
    ELSE Slash \o quote(join(Slash, DecodedRest(p)), SafeArg)

\* C3 (amended): in a document whose image links all have the old folder
\* name as decoded first segment (and no "]" in their paths), after rewriting
\* every image link decodes to the relative path to the new folder followed by
\* the decoded other segments of the input (empty and "." segments dropped),
\* is percent-encoded throughout, and keeps the bytes of the other segments
\* whenever these were already in that encoded form.
C3_RoundTrip ==
    (pc = "done" /\ AllImagesInOldDir /\ NoBracketInPaths) =>
        /\ Len(ImagePaths(ret)) = Len(ImagePaths(text))
        /\ \A k \in 1..Len(ImagePaths(text)) :
              LET pin == ImagePaths(text)[k]
                  pout == ImagePaths(ret)[k]
              IN /\ PathParts(unquote(pout)) = <<rel_to_imgs>> \o DecodedRest(pin)
                 /\ AllIn(pout, AlwaysSafe \cup SafeArg \cup {"%"})
                 /\ \A i \in 1..Len(pout) : pout[i] = "%" => i \in EscapeStarts(pout)
                 /\ RawRest(pin) = CanonRest(pin) => RawRest(pout) = RawRest(pin)

\* an image link with an unencoded space after the old folder was rewritten
C3_Witness ==
    /\ pc = "done"
    /\ AllImagesInOldDir
    /\ NoBracketInPaths
    /\ \E k \in 1..Len(ImagePaths(text)) :
          /\ Contains(RawRest(ImagePaths(text)[k]), <<" ">>)
          /\ ImagePaths(ret)[k] # ImagePaths(text)[k]

\* C9: only the parenthesised paths of the links in which a variant occurs
\* change: the text is the input with those paths rewritten, every other
\* path, every label and all text between the links byte-identical.
C9_Frame ==
    pc = "done" =>
        ret = <<"t", " ">> \o RenderFrom(links, old_dirnames, rel_to_imgs, TRUE)

\* the same for the documents in which no label holds the text of its path
LabelsApart == \A k \in 1..Len(links) : links[k].label \in { "x", "empty" }

FrameWithLabelsApart == LabelsApart => C9_Frame

(***************************************************************************)
(* Specification SpecStrip: strip_hash applied to names built from pieces. *)
(***************************************************************************)
NamePieces == { <<"A">>, <<" ">>, <<"_">>, <<"|">>, <<"a">>, Hash1 }

RECURSIVE Concats(_, _)
\* all concatenations of at most n pieces
Concats(pieces, n) ==
    IF n = 0 THEN { <<>> }
    ELSE LET shorter == Concats(pieces, n - 1) IN
         shorter \cup { s \o p : s \in shorter, p \in pieces }

StripNames == Concats(NamePieces, MaxPieces)

InitStrip ==
    /\ pc = "call"
    /\ name \in StripNames
    /\ ret = Unset
    /\ IdleFind
    /\ IdleFs /\ IdleLinks /\ IdleMain

CallStripHash ==
    /\ pc = "call"
    /\ ret' = strip_hash(name)
    /\ pc' = "done"
    /\ UNCHANGED <<name, findVars, fsVars, linkVars, mainVars>>

NextStrip == CallStripHash

SpecStrip == InitStrip /\ [][NextStrip]_vars

LastTokenIsHash(s) == Len(split(s)) > 0 /\ HEX32_fullmatch(split(s)[Len(split(s))])

Separators == {" ", "|", "_"}

\* C6 (as stated): for every name whose last token is a 32-hex token, the
\* result is the name without that token and the separators before it, with
\* the earlier tokens unchanged, and stripping the result again gives the
\* result.
C6_AsStated ==
    (pc = "done" /\ LastTokenIsHash(name)) =>
        LET toks == split(name)
            kept == join(<<" ">>, SubSeq(toks, 1, Len(toks) - 1))
        IN /\ Len(ret) <= Len(kept)
           /\ SubSeq(kept, 1, Len(ret)) = ret
           /\ AllIn(SubSeq(kept, Len(ret) + 1, Len(kept)), Separators)
           /\ (ret # <<>> => ret[Len(ret)] \notin Separators)
           /\ strip_hash(ret) = ret

\* C6 (amended): for every name whose last token is a 32-hex token, the result
\* is the earlier tokens joined by single spaces, cut before the separator
\* characters that end them (so it ends in no separator and keeps every earlier
\* character), and stripping again changes nothing whenever the result does
\* not itself end in a 32-hex token.
C6_StripHash ==
    (pc = "done" /\ LastTokenIsHash(name)) =>
        LET toks == split(name)
            kept == join(<<" ">>, SubSeq(toks, 1, Len(toks) - 1))
        IN /\ Len(ret) <= Len(kept)
           /\ SubSeq(kept, 1, Len(ret)) = ret
           /\ AllIn(SubSeq(kept, Len(ret) + 1, Len(kept)), Separators)
           /\ (ret # <<>> => ret[Len(ret)] \notin Separators)
           /\ (~LastTokenIsHash(ret) => strip_hash(ret) = ret)

\* a name with a middle token, a separator run and a trailing hash was stripped
C6_Witness ==
    /\ pc = "done"
    /\ LastTokenIsHash(name)
    /\ Len(split(name)) >= 2
    /\ ret # <<>>
    /\ Len(ret) + HexLen + 1 < Len(name)

(***************************************************************************)
(* extract_number and the names process_one derives.                       *)
(***************************************************************************)
\* the last position of the run of characters of set that starts at from
\* (from - 1 when the run is empty)
RunEnd(s, from, set) ==
    LET stops == { k \in from..Len(s) : s[k] \notin set } IN
    IF stops = {} THEN Len(s) ELSE Min(stops) - 1

\* LECTURE_NUM matches at position i: 0x, digits, whitespace, the marker
LectureNumAt(s, i) ==
    /\ i + 2 <= Len(s)
    /\ s[i] = "0"
    /\ s[i + 1] \in {"x", "X"}
    /\ s[i + 2] \in Digits
    /\ LET w == RunEnd(s, RunEnd(s, i + 2, Digits) + 1, {" ", "\t", "\n"}) IN
          w + 1 <= Len(s) /\ s[w + 1] = Kang

\* s.zfill(2)
zfill2(s) == IF Len(s) >= 2 THEN s ELSE Rep("0", 2 - Len(s)) \o s

\* str(n) for n >= 0
RECURSIVE DecStr(_)
DecStr(n) ==
    IF n < 10 THEN <<HexUpper[n + 1]>> ELSE DecStr(n \div 10) \o <<HexUpper[(n % 10) + 1]>>

extract_number(title, fallback_idx) ==
    LET hits == { i \in 1..Len(title) : LectureNumAt(title, i) } IN
    IF hits # {}
    THEN zfill2(SubSeq(title, Min(hits) + 2, RunEnd(title, Min(hits) + 2, Digits)))
    ELSE zfill2(DecStr(fallback_idx))

LecturePrefix == <<"l","e","c","t","u","r","e"," ">>

\* new_img_dir_name of line 118 for the folder old_dir at index i
NewDirName(old_dir, i) ==
    LecturePrefix \o extract_number(remove_brackets(strip_hash(old_dir)), i)

DotBak == <<".", "b", "a", "k">>

\* name.with_suffix(sfx)
with_suffix(nm, sfx) == stem(nm) \o sfx

\* bak of line 95
BakName(m) == with_suffix(m, suffix(m) \o DotBak)

\* clean_md_name of line 137
CleanName(m) == remove_brackets(strip_hash(stem(m))) \o suffix(m)

\* the backup of an overwritten destination, line 141
DestBakName(d) == with_suffix(d, DotMd \o DotBak)

(***************************************************************************)
(* Listing the working directory.                                          *)
(***************************************************************************)
\* ord(c)
Ord(c) == IF c = Kang THEN 44053 ELSE IF c = Replacement THEN 65533 ELSE Code(c)

\* a < b for Python strings
StrLess(a, b) ==
    LET diff == { i \in 1..(IF Len(a) < Len(b) THEN Len(a) ELSE Len(b)) : a[i] # b[i] } IN
    IF diff = {} THEN Len(a) < Len(b)
    ELSE Ord(a[Min(diff)]) < Ord(b[Min(diff)])

RECURSIVE Sorted(_)
Sorted(set) ==
    IF set = {} THEN <<>>
    ELSE LET least == CHOOSE x \in set : \A y \in set \ {x} : StrLess(x, y) IN
         <<least>> \o Sorted(set \ {least})

Root == <<>>

\* the names main() keeps: directories whose name HEX32.search accepts
Candidates(f) ==
    { n \in ChildNames(f, Root) : IsDir(f, <<n>>) /\ HEX32_search(n) }

EndsWith(s, t) == Len(s) >= Len(t) /\ SubSeq(s, Len(s) - Len(t) + 1, Len(s)) = t

\* the names parent.glob("*.md") yields
DocNames(f) == { n \in ChildNames(f, Root) : EndsWith(n, DotMd) }

\* every order in which a set can be listed
Listings(set) ==
    { o \in Arrangements(set, Cardinality(set)) : Len(o) = Cardinality(set) /\ Distinct(o) }

\* the names below the directory p
NamesBelow(f, p) == { q[Len(q)] : q \in Under(f, p) \ {p} }

(***************************************************************************)
(* Specification Spec: main() run on a working directory, then run again.  *)
(***************************************************************************)
MaxFolders == 2           \* hash-suffixed folders in the working directory
MaxMainDocs == 2          \* documents in the working directory
MaxRuns == 2              \* runs of main() in a row

FolderB02 == <<"0", "x", "0", "2", Kang, " ", "B", " ">> \o Hash1
\* a title whose lecture number has 32 digits
FolderLong == <<"0", "x">> \o Rep("7", HexLen) \o <<Kang, " ">> \o Hash1
FolderA == <<"A", " ">> \o Hash1
FolderC == <<"C", " ">> \o Hash2
FolderD == <<"[", "D", "]", " ">> \o Hash2

MainFolders == { FolderB02, FolderLong, FolderA, FolderC, FolderD }

ImageI == <<"i", ".", "p", "n", "g">>
ImageK == <<"k", ".", "p", "n", "g">>
ImageContent == <<"p", "n", "g">>

MainDocs ==
    { <<"A">> \o DotMd,
      <<"[", "A", "]">> \o DotMd,
      FolderA \o DotMd,
      <<"C">> \o DotMd,
      <<"N", "_">> \o Hash2 \o DotMd,
      <<"Z">> \o DotMd }

\* the texts a document may hold: an image link into folder A, percent-
\* encoded as the export writes it, or no link at all
TextLinkA == <<"!", "[", "x", "]", "(", "A">> \o Pct20 \o Hash1 \o <<"/">> \o ImageI \o <<")">>
TextPlain == <<"t">>
MainTexts == { TextLinkA, TextPlain }

\* the working directory holding the folders fl (each with one image) and
\* the documents dl
MainFs(imageOf, textOf) ==
    [q \in { Root }
           \cup { <<n>> : n \in DOMAIN imageOf }
           \cup { <<n, imageOf[n]>> : n \in DOMAIN imageOf }
           \cup { <<n>> : n \in DOMAIN textOf } |->
        IF Len(q) = 0 THEN Dir
        ELSE IF Len(q) = 2 THEN ImageContent
        ELSE IF q[1] \in DOMAIN imageOf THEN Dir
        ELSE textOf[q[1]]]

SubsetsUpTo(set, n) == { x \in SUBSET set : Cardinality(x) <= n }

EmptyLog ==
    [rewritten |-> <<>>, renamed |-> <<>>, skipped |-> <<>>, ident |-> <<>>,
     prev |-> [count |-> 0, n |-> 0, crashed |-> FALSE, hexdest |-> FALSE]]

\* every document is itself when a run starts
IdentOf(f) == [n \in DocNames(f) |-> n]

Init ==
    /\ pc = "main"
    /\ \E fl \in SubsetsUpTo(MainFolders, MaxFolders), dl \in SubsetsUpTo(MainDocs, MaxMainDocs) :
          \E imageOf \in [fl -> { ImageI, ImageK }], textOf \in [dl -> MainTexts] :
              fs = MainFs(imageOf, textOf)
    /\ fs0 = fs
    /\ folders = <<>>
    /\ idx = 1
    /\ count = 0
    /\ md = Unset
    /\ text = Unset
    /\ run = 1
    /\ log = [EmptyLog EXCEPT !.ident = IdentOf(fs)]
    /\ ret = Unset /\ name = Unset /\ IdleFind
    /\ src = Unset /\ dst = Unset /\ ord = Unset
    /\ old_dirnames = Unset /\ rel_to_imgs = Unset /\ links = Unset

unusedVars == <<name, ret, findVars, src, dst, ord, old_dirnames, rel_to_imgs, links>>

\* main, lines 146-149: list, filter and sort the folders
Scan ==
    /\ pc = "main"
    /\ folders' = Sorted(Candidates(fs))
    /\ idx' = 1
    /\ count' = 0
    /\ pc' = "loop"
    /\ UNCHANGED <<fs, fs0, text, md, run, log, unusedVars>>

\* process_one returns False, lines 122-124: nothing but the loop index moves
SkipFolder_counted ==
    /\ md' = None
    /\ idx' = idx + 1
    /\ pc' = "loop"
    /\ count' = count + 1
    /\ log' = [log EXCEPT !.skipped = Append(@, folders[idx])]
    /\ UNCHANGED <<fs, fs0, text, folders, run, unusedVars>>

SkipFolder ==
    /\ md' = None
    /\ idx' = idx + 1
    /\ pc' = "loop"
    /\ log' = [log EXCEPT !.skipped = Append(@, folders[idx])]
    /\ UNCHANGED <<fs, fs0, text, count, folders, run, unusedVars>>

\* process_one, lines 114-124: look for the document of folders[idx]
FindMd ==
    /\ pc = "loop"
    /\ idx <= Len(folders)
    /\ \E cs \in Listings(DocNames(fs)) :
          IF find_md_for_folder(cs, folders[idx]) = None
          THEN SkipFolder
          ELSE /\ md' = find_md_for_folder(cs, folders[idx])
               /\ pc' = "rename"
               /\ UNCHANGED <<fs, fs0, text, folders, idx, count, run, log, unusedVars>>

\* process_one, line 127: rename or merge the folder
RenameStep ==
    /\ pc = "rename"
    /\ \E o \in Listings(NamesBelow(fs, <<folders[idx]>>)) :
          LET r == RenameCall(fs, <<folders[idx]>>, <<NewDirName(folders[idx], idx)>>, o) IN
          /\ fs' = r.fs
          /\ IF r.st = Raised
             THEN pc' = "crashed" /\ log' = log
             ELSE /\ pc' = "backup"
                  /\ log' = [log EXCEPT !.renamed =
                                Append(@, [folder |-> folders[idx],
                                           dest |-> NewDirName(folders[idx], idx)])]
    /\ UNCHANGED <<fs0, text, folders, idx, count, md, run, unusedVars>>

\* what replace_links writes to the .bak file: the document as read from disk
BackupContent_rewritten(f, m, t) == t

BackupContent(f, m, t) == f[<<m>>]

\* replace_links, lines 58-96: rewrite the text in memory, write the backup
BackupStep ==
    /\ pc = "backup"
    /\ text' = RewriteText(fs[<<md>>], OldVariants(folders[idx]), NewDirName(folders[idx], idx))
    /\ fs' = Put(fs, <<BakName(md)>>, BackupContent(fs, md, text'))
    /\ pc' = "write"
    /\ UNCHANGED <<fs0, folders, idx, count, md, run, log, unusedVars>>

\* replace_links, line 97: write the rewritten text
WriteStep ==
    /\ pc = "write"
    /\ fs' = Put(fs, <<md>>, text)
    /\ text' = Unset
    /\ log' = [log EXCEPT !.rewritten =
                  Append(@, [folder |-> folders[idx], doc |-> log.ident[md]])]
    /\ pc' = "move"
    /\ UNCHANGED <<fs0, folders, idx, count, md, run, unusedVars>>

\* process_one returns True and main counts it, lines 143 and 151-152
ReturnTrue ==
    /\ count' = count + 1
    /\ idx' = idx + 1
    /\ md' = Unset
    /\ pc' = "loop"

\* the document m now has the name d
Renamed(m, d) ==
    [log EXCEPT !.ident = [n \in (DOMAIN log.ident \ {m}) \cup {d} |->
                              IF n = d THEN log.ident[m] ELSE log.ident[n]]]

\* process_one, lines 137-142: the document gets its cleaned name
MoveStep ==
    /\ pc = "move"
    /\ IF md = CleanName(md)
       THEN ReturnTrue /\ UNCHANGED <<fs, log>>
       ELSE IF <<CleanName(md)>> \in DOMAIN fs
            THEN /\ fs' = Put(fs, <<DestBakName(CleanName(md))>>, fs[<<CleanName(md)>>])
                 /\ pc' = "overwrite"
                 /\ UNCHANGED <<idx, count, md, log>>
            ELSE /\ fs' = MoveTree(fs, <<md>>, <<CleanName(md)>>)
                 /\ log' = Renamed(md, CleanName(md))
                 /\ ReturnTrue
    /\ UNCHANGED <<fs0, text, folders, run, unusedVars>>

\* process_one, line 142 when the destination exists: the move replaces it
OverwriteStep ==
    /\ pc = "overwrite"
    /\ fs' = MoveTree(Replace(fs, {<<CleanName(md)>>}, <<>>), <<md>>, <<CleanName(md)>>)
    /\ log' = Renamed(md, CleanName(md))
    /\ ReturnTrue
    /\ UNCHANGED <<fs0, text, folders, run, unusedVars>>

\* main, lines 153-156: the loop is over, the summary is printed
Finish ==
    /\ pc = "loop"
    /\ idx > Len(folders)
    /\ pc' = "done"
    /\ UNCHANGED <<fs, fs0, text, folders, idx, count, md, run, log, unusedVars>>

\* the program is started again on the directory it left
Rerun ==
    /\ pc \in {"done", "crashed"}
    /\ run < MaxRuns
    /\ run' = run + 1
    /\ pc' = "main"
    /\ fs0' = fs
    /\ folders' = <<>>
    /\ idx' = 1
    /\ count' = 0
    /\ md' = Unset
    /\ text' = Unset
    /\ log' = [EmptyLog EXCEPT !.ident = IdentOf(fs),
                               !.prev = [count |-> count, n |-> Len(folders),
                                         crashed |-> pc = "crashed",
                                         hexdest |-> \E i \in 1..Len(log.renamed) :
                                                        HEX32_search(log.renamed[i].dest)]]
    /\ UNCHANGED <<fs, unusedVars>>

Next ==
    \/ Scan
    \/ FindMd
    \/ RenameStep
    \/ BackupStep
    \/ WriteStep
    \/ MoveStep
    \/ OverwriteStep
    \/ Finish
    \/ Rerun

Spec == Init /\ [][Next]_vars

(***************************************************************************)
(* Properties of a run of main().                                          *)
(***************************************************************************)
NoRepeat(seq, key) ==
    \A i, j \in 1..Len(seq) : i # j => seq[i][key] # seq[j][key]

\* C4: in one run no document is rewritten for two candidate folders: the
\* documents rewritten in the run are pairwise distinct.
C4_RewrittenOnce == NoRepeat(log.rewritten, "doc")

\* C10: in one run any two folders that are processed get distinct
\* destination names "lecture NN".
C10_DistinctDestinations == NoRepeat(log.renamed, "dest")

\* C5: whenever a step replaces the content of an existing document, the
\* file "<document>.bak" already holds the content the document has before
\* that step (the backup is written first, from the disk), both for the
\* rewrite of replace_links and for the move onto an existing destination.
C5_BackupBeforeWrite ==
    [][\A n \in DocNames(fs) :
          (<<n>> \in DOMAIN fs' /\ fs'[<<n>>] # fs[<<n>>]) =>
              (<<n \o DotBak>> \in DOMAIN fs /\ fs[<<n \o DotBak>>] = fs[<<n>>])]_vars

\* the rewrite changed the document, whose backup holds the text it had, and
\* the backup of the destination it is about to replace has been written
C5_Witness ==
    /\ pc = "overwrite"
    /\ fs[<<md>>] # fs[<<md \o DotBak>>]
    /\ fs[<<md \o DotBak>>] = fs0[<<md>>]
    /\ fs[<<CleanName(md) \o DotBak>>] = fs[<<CleanName(md)>>]
    /\ fs[<<CleanName(md)>>] # fs[<<md>>]

\* C8: when no document is found for a folder, process_one changes nothing:
\* the directory tree and the count stay as they are, no folder is renamed and
\* no document rewritten, and main() goes on with the next folder.
C8_SkipChangesNothing ==
    [][(pc = "loop" /\ idx <= Len(folders) /\ md' = None) =>
          /\ fs' = fs
          /\ count' = count
          /\ log'.renamed = log.renamed
          /\ log'.rewritten = log.rewritten
          /\ folders' = folders
          /\ idx' = idx + 1
          /\ pc' = "loop"]_vars

\* the first folder was skipped, the second one processed and counted
C8_Witness ==
    /\ pc = "done"
    /\ Len(folders) = 2
    /\ log.skipped = <<folders[1]>>
    /\ count = 1
    /\ <<folders[1]>> \in DOMAIN fs
    /\ <<folders[2]>> \notin DOMAIN fs

\* C7 (as stated): a run that follows a run (which ended normally) finds no
\* hash-suffixed folder and the directory tree stays as the first run left it.
C7_AsStated ==
    (run >= 2 /\ ~log.prev.crashed) => (Candidates(fs) = {} /\ fs = fs0)

\* C7 (amended): a run that follows a run in which process_one returned True
\* for every candidate folder, none of them renamed to a name that itself ends
\* in 32 hex characters, finds no hash-suffixed folder and the directory tree
\* stays as that run left it.
C7_Convergence ==
    (run >= 2 /\ ~log.prev.crashed /\ log.prev.count = log.prev.n /\ ~log.prev.hexdest) =>
        (Candidates(fs) = {} /\ fs = fs0)

\* the second run is over, after a first run that processed two folders
C7_Witness ==
    /\ run = 2
    /\ pc = "done"
    /\ log.prev.n = 2
    /\ log.prev.count = 2

====
